---- MODULE Spec2Model ----
(***************************************************************************)
(* Model of the configuration patcher of frk-peers-updater                 *)
(* (src/src/cfg_file_modify.rs): one call of add_peers_to_conf_new on a    *)
(* document, a ranked peer list and the policy knobs.                      *)
(*                                                                         *)
(* Text is a sequence of one-character strings.  Source positions are      *)
(* 0-based (Rust); the character at source position p is chars[p + 1].     *)
(* A Rust panic (slice or splice range out of bounds) aborts the process:  *)
(* the scans return a record with panic = TRUE and the call ends in        *)
(* pc = "panic" with the panic's place on stderr and nothing written.      *)
(***************************************************************************)
EXTENDS Integers, Sequences, FiniteSets, TLC

VARIABLES cfg_txt, peers, n_peers, always_in_p, ignored_peers,
          pc, peers_start_pos, peers_end_pos, new_peers, char_vec,
          file, stderr

vars == <<cfg_txt, peers, n_peers, always_in_p, ignored_peers,
          pc, peers_start_pos, peers_end_pos, new_peers, char_vec,
          file, stderr>>

inputs == <<cfg_txt, peers, n_peers, always_in_p, ignored_peers>>

----------------------------------------------------------------------------
(* Bounds of the explored inputs.                                          *)

MaxFrags == 4
MaxPeers == 2
MaxCount == 2
MaxExtra == 3
MaxIgnore == 2

(* u8 counters (n_added, open_count, close_count) live modulo 2^8 in a     *)
(* release build; the bounds above keep every counter far below it.        *)
U8 == 256

----------------------------------------------------------------------------
(* Literals of the source.                                                 *)

LF == "\n"
KeyBare == <<"P", "e", "e", "r", "s", ":">>
KeyQuoted == <<"\"", "P", "e", "e", "r", "s", "\"", ":">>
KeyOffset == 6

None == [some |-> FALSE, val |-> <<>>]
Some(s) == [some |-> TRUE, val |-> s]

Ret(p) == [pos |-> p, panic |-> FALSE]
Panicked == [pos |-> 0, panic |-> TRUE]

(* chars[from..from+n]: Rust panics when from + n exceeds the length.      *)
SliceInRange(chars, from, n) == from + n <= Len(chars)
Slice(chars, from, n) == [i \in 1..n |-> chars[from + i]]

----------------------------------------------------------------------------
(* find_comment_end_and_continue                                           *)

RECURSIVE find_comment_end_and_continue(_, _, _, _, _)
find_comment_end_and_continue(chars, symbols, cur_pos, to, find_start) ==
  IF ~(cur_pos <= to) THEN Ret(cur_pos)
  ELSE IF ~SliceInRange(chars, cur_pos, Len(symbols)) THEN Panicked
  ELSE IF Slice(chars, cur_pos, Len(symbols)) = symbols
       THEN (IF find_start THEN Ret(cur_pos + Len(symbols)) ELSE Ret(cur_pos))
  ELSE find_comment_end_and_continue(chars, symbols, cur_pos + 1, to, find_start)

(* The position at which the caller's loop resumes after a comment: the    *)
(* skipper's result, then the loop's own `cur_pos += 1`.                    *)
AfterComment(r) == r.pos + 1

----------------------------------------------------------------------------
(* find_peers_start_pos                                                    *)

LocateFrom == 1

RECURSIVE find_peers_start_pos(_, _, _)
find_peers_start_pos(chars, cur_pos, to) ==
  IF ~(cur_pos <= to) THEN Ret(cur_pos)
  ELSE IF cur_pos >= Len(chars) THEN find_peers_start_pos(chars, cur_pos + 1, to)
  ELSE IF chars[cur_pos + 1] = "#" THEN
    LET r == find_comment_end_and_continue(chars, <<LF>>, cur_pos + 1, to, TRUE)
    IN IF r.panic THEN Panicked
       ELSE find_peers_start_pos(chars, AfterComment(r), to)
  ELSE IF ~SliceInRange(chars, cur_pos, 2) THEN Panicked
  ELSE IF Slice(chars, cur_pos, 2) = <<"/", "/">> THEN
    LET r == find_comment_end_and_continue(chars, <<LF>>, cur_pos + 2, to, TRUE)
    IN IF r.panic THEN Panicked
       ELSE find_peers_start_pos(chars, AfterComment(r), to)
  ELSE IF Slice(chars, cur_pos, 2) = <<"/", "*">> THEN
    LET r == find_comment_end_and_continue(chars, <<"*", "/">>, cur_pos + 2, to, TRUE)
    IN IF r.panic THEN Panicked
       ELSE find_peers_start_pos(chars, AfterComment(r), to)
  ELSE IF ~SliceInRange(chars, cur_pos, 6) THEN Panicked
  ELSE IF Slice(chars, cur_pos, 6) = KeyBare THEN Ret(cur_pos)
  ELSE IF ~SliceInRange(chars, cur_pos, 8) THEN Panicked
  ELSE IF Slice(chars, cur_pos, 8) = KeyQuoted THEN Ret(cur_pos)
  ELSE find_peers_start_pos(chars, cur_pos + 1, to)

----------------------------------------------------------------------------
(* find_end_of_peers_fragment                                              *)

RECURSIVE find_end_loop(_, _, _, _, _)
find_end_loop(chars, cur_pos, to, open_count, close_count) ==
  IF ~(cur_pos <= to) THEN Ret(cur_pos)
  ELSE IF cur_pos >= Len(chars)
       THEN find_end_loop(chars, cur_pos + 1, to, open_count, close_count)
  ELSE IF chars[cur_pos + 1] = "#" THEN
    LET r == find_comment_end_and_continue(chars, <<LF>>, cur_pos + 1, to, FALSE)
    IN IF r.panic THEN Panicked
       ELSE find_end_loop(chars, AfterComment(r), to, open_count, close_count)
  ELSE IF chars[cur_pos + 1] = "[" THEN
    find_end_loop(chars, cur_pos + 1, to, (open_count + 1) % U8, close_count)
  ELSE IF chars[cur_pos + 1] = "]" THEN
    LET c == (close_count + 1) % U8
    IN IF open_count > 0 /\ open_count = c THEN Ret(cur_pos)
       ELSE find_end_loop(chars, cur_pos + 1, to, open_count, c)
  ELSE IF ~SliceInRange(chars, cur_pos, 2) THEN Panicked
  ELSE IF Slice(chars, cur_pos, 2) = <<"/", "/">> THEN
    LET r == find_comment_end_and_continue(chars, <<LF>>, cur_pos + 2, to, FALSE)
    IN IF r.panic THEN Panicked
       ELSE find_end_loop(chars, AfterComment(r), to, open_count, close_count)
  ELSE IF Slice(chars, cur_pos, 2) = <<"/", "*">> THEN
    LET r == find_comment_end_and_continue(chars, <<"*", "/">>, cur_pos + 2, to, FALSE)
    IN IF r.panic THEN Panicked
       ELSE find_end_loop(chars, AfterComment(r), to, open_count, close_count)
  ELSE find_end_loop(chars, cur_pos + 1, to, open_count, close_count)

(* Variant of the extent finder that returns the document length on       *)
(* exhaustion instead of the position the loop stopped at.                 *)
find_end_clamped(chars, from, to) ==
  LET r == find_end_loop(chars, from, to, 0, 0)
  IN IF r.panic \/ r.pos <= to THEN r ELSE Ret(to)

find_end_of_peers_fragment(chars, from, to) == find_end_loop(chars, from, to, 0, 0)

----------------------------------------------------------------------------
(* The replacement builder: lines 26-53 of add_peers_to_conf_new.          *)

ArrayOpen ==
  <<"P", "e", "e", "r", "s", ":", "\n", " ", " ", "[">>
EntryComment ==
  <<"\n", " ", " ", " ", " ", "#">>
EntryLine ==
  <<"\n", " ", " ", " ", " ">>
ExtraMarker ==
  <<"\n", "\n", " ", " ", " ", " ", "#", "e", "x", "t", "r", "a">>
ArrayClose ==
  <<"\n", " ", " ", "]">>

(* format!("\n    #{}/{}\n    {}", peer.region, peer.country, peer.uri)    *)
FormatPeer(peer) ==
  EntryComment \o peer.region \o <<"/">> \o peer.country \o EntryLine \o peer.uri

(* str::contains: needle occurs as a contiguous run of hay.                *)
Contains(hay, needle) ==
  \E i \in 0..(Len(hay) - Len(needle)) : Slice(hay, i, Len(needle)) = needle

(* Variant of the exclusion test with the operands of contains swapped.    *)
Ignored_swapped(ignored, peer) == ignored.some /\ Contains(peer.uri, ignored.val)

(* ignored_peers_p.contains(&peer.uri)                                     *)
Ignored(ignored, peer) == ignored.some /\ Contains(ignored.val, peer.uri)

(* n_added == n_peers, tested after the increment.                         *)
CapReached(n_added, cap) == n_added = cap

RECURSIVE AddPeers(_, _, _, _, _, _)
AddPeers(ps, i, n_added, cap, ignored, acc) ==
  IF i > Len(ps) THEN acc
  ELSE IF Ignored(ignored, ps[i]) THEN AddPeers(ps, i + 1, n_added, cap, ignored, acc)
  ELSE LET acc2 == acc \o FormatPeer(ps[i])
           n2 == (n_added + 1) % U8
       IN IF CapReached(n2, cap) THEN acc2
          ELSE AddPeers(ps, i + 1, n2, cap, ignored, acc2)

(* always_in.split(" "): the pieces between single spaces, empty pieces    *)
(* included.                                                               *)
RECURSIVE SplitSpaces(_)
SplitSpaces(s) ==
  IF \A i \in 1..Len(s) : s[i] # " " THEN <<s>>
  ELSE LET i == CHOOSE k \in 1..Len(s) : s[k] = " " /\ \A j \in 1..(k - 1) : s[j] # " "
       IN <<SubSeq(s, 1, i - 1)>> \o SplitSpaces(SubSeq(s, i + 1, Len(s)))

RECURSIVE ExtraLines(_, _)
ExtraLines(pieces, i) ==
  IF i > Len(pieces) THEN <<>>
  ELSE EntryLine \o pieces[i] \o ExtraLines(pieces, i + 1)

AlwaysIn(always_in) ==
  IF always_in.some THEN ExtraMarker \o ExtraLines(SplitSpaces(always_in.val), 1)
  ELSE <<>>

(* Variant of the builder that leaves the fixed additions out when the     *)
(* cap is zero.                                                            *)
BuildNewPeers_capped_extras(ps, cap, always_in, ignored) ==
  AddPeers(ps, 1, 0, cap, ignored, ArrayOpen)
    \o (IF cap = 0 THEN <<>> ELSE AlwaysIn(always_in)) \o ArrayClose

BuildNewPeers(ps, cap, always_in, ignored) ==
  AddPeers(ps, 1, 0, cap, ignored, ArrayOpen) \o AlwaysIn(always_in) \o ArrayClose

(* Variant of the splice range that stops before the old closing bracket.  *)
SpliceEnd_exclusive(end) == end

(* char_vec.splice(start..end + 1, new): the range's end may not exceed    *)
(* the vector's length.                                                    *)
SpliceEnd(end) == end + 1
SpliceInRange(chars, start, end) == start <= SpliceEnd(end) /\ SpliceEnd(end) <= Len(chars)
Splice(chars, start, end, new) ==
  SubSeq(chars, 1, start) \o new \o SubSeq(chars, SpliceEnd(end) + 1, Len(chars))

----------------------------------------------------------------------------
(* The inputs explored.                                                    *)

Scenario1Doc ==
  <<"f", "o", "o", ":", " ", "1", "\n", "P", "e", "e", "r", "s", ":", "\n",
    " ", " ", "[", "\n", " ", " ", " ", " ", "o", "l", "d", "\n", " ", " ",
    "]", "\n", "b", "a", "r", ":", " ", "2", "\n">>
Scenario1Out ==
  <<"f", "o", "o", ":", " ", "1", "\n", "P", "e", "e", "r", "s", ":", "\n",
    " ", " ", "[", "\n", " ", " ", " ", " ", "#", "E", "U", "/", "F", "R",
    "\n", " ", " ", " ", " ", "a", "d", "d", "r", "1", "\n", " ", " ", "]",
    "\n", "b", "a", "r", ":", " ", "2", "\n">>
Scenario3Doc ==
  <<"{", "\n", "/", "*", " ", "P", "e", "e", "r", "s", ":", " ", "[", "d",
    "e", "a", "d", "]", " ", "*", "/", "\n", "}", "\n">>
DecoyDoc ==
  <<"#", " ", "P", "e", "e", "r", "s", ":", " ", "[", "x", "]", "\n", "P",
    "e", "e", "r", "s", ":", "\n", " ", " ", "[", "\n", " ", " ", " ", " ",
    "1", "\n", " ", " ", "]">>
AdjacentCommentsDoc ==
  <<"{", "\n", "P", "e", "e", "r", "s", ":", " ", "[", " ", "/", "*", "a",
    "*", "/", "/", "*", "b", "*", "/", " ", "]", "\n", "}", "\n">>
Addr1 == [uri |-> <<"a", "d", "d", "r", "1">>, region |-> <<"E", "U">>, country |-> <<"F", "R">>]
Addr2 == [uri |-> <<"a", "d", "d", "r", "2">>, region |-> <<"A", "S">>, country |-> <<"J", "P">>]
Addr9 == <<"a", "d", "d", "r", "9">>

PeerA == [uri |-> <<"a">>, region |-> <<"E">>, country |-> <<"F">>]
PeerAB == [uri |-> <<"a", "b">>, region |-> <<"A">>, country |-> <<"J">>]
PeerB == [uri |-> <<"b">>, region |-> <<"N">>, country |-> <<"U">>]
PeerSet == {PeerA, PeerAB, PeerB}

(* All sequences over S of length at most n.                               *)
RECURSIVE SeqsUpTo(_, _)
SeqsUpTo(S, n) ==
  IF n = 0 THEN {<<>>}
  ELSE LET prev == SeqsUpTo(S, n - 1)
       IN prev \cup {Append(s, x) : s \in prev, x \in S}

(* Documents: a head (how the key is spelled and placed, or no key)        *)
(* followed by at most MaxFrags fragments of array and comment syntax.     *)
Heads ==
  { <<>>,
    <<"a">> \o KeyBare,
    <<"a">> \o KeyQuoted,
    KeyBare,
    <<"#">> \o KeyBare \o <<LF>> \o KeyBare,
    <<"a", "#">> \o KeyBare \o <<LF>> \o KeyBare,
    <<"a", "#">> \o KeyBare \o <<LF, "a">> \o KeyBare,
    <<"a", "/", "*">> \o KeyBare \o <<"*", "/">> }

Frags ==
  { <<"[">>, <<"]">>, <<"#">>, <<"/", "/">>, <<"/", "*">>, <<"*", "/">>,
    <<LF>>, <<"a">> }

RECURSIVE Bodies(_)
Bodies(n) ==
  IF n = 0 THEN {<<>>}
  ELSE LET prev == Bodies(n - 1)
       IN prev \cup {b \o f : b \in prev, f \in Frags}

ScenarioDocs ==
  { Scenario1Doc, Scenario3Doc, DecoyDoc, AdjacentCommentsDoc,
    <<"/", "*", " ">> \o KeyBare \o <<" ", "[", "d", "e", "a", "d", "]", " ", "*", "/", LF>> }

Docs == {h \o b : h \in Heads, b \in Bodies(MaxFrags)} \cup ScenarioDocs

CoreDoc == <<"a">> \o KeyBare \o <<"[", LF, "a", LF, "]", LF>>

Policy(ps, n, ai, ig) == [peers |-> ps, n_peers |-> n, always_in |-> ai, ignored |-> ig]

CorePolicies == {Policy(<<PeerA, PeerAB>>, 1, None, None)}

ScenarioPolicies ==
  { Policy(<<Addr1, Addr2>>, 1, None, None),
    Policy(<<Addr1, Addr2>>, 5, None, Some(Addr1.uri)),
    Policy(<<Addr1, Addr2>>, 0, Some(Addr9), None) }

Policies ==
  { Policy(ps, n, ai, ig) :
      ps \in SeqsUpTo(PeerSet, MaxPeers),
      n \in 0..MaxCount,
      ai \in {None} \cup {Some(s) : s \in SeqsUpTo({"a", " "}, MaxExtra)},
      ig \in {None} \cup {Some(s) : s \in SeqsUpTo({"a", "b"}, MaxIgnore) \ {<<>>}} }

(* Every document under the core policy, every policy on the core          *)
(* document, and the specification's scenarios.                            *)
Calls ==
  (Docs \X CorePolicies) \cup ({CoreDoc} \X Policies)
    \cup ({Scenario1Doc} \X ScenarioPolicies)

----------------------------------------------------------------------------
(* One call of add_peers_to_conf_new.  The file at conf_path holds the     *)
(* text the caller read as cfg_txt.                                        *)

(* The file at conf_path.  File::create truncates it, then write_all       *)
(* either writes all of the text or fails having written some proper      *)
(* prefix of it; Torn(t) stands for every such prefix.                     *)
Whole(t) == [torn |-> FALSE, text |-> t]
Torn(t) == [torn |-> TRUE, text |-> t]

Init ==
  /\ \E c \in Calls :
       /\ cfg_txt = c[1]
       /\ peers = c[2].peers
       /\ n_peers = c[2].n_peers
       /\ always_in_p = c[2].always_in
       /\ ignored_peers = c[2].ignored
  /\ pc = "locate"
  /\ peers_start_pos = 0
  /\ peers_end_pos = 0
  /\ new_peers = <<>>
  /\ char_vec = cfg_txt
  /\ file = Whole(cfg_txt)
  /\ stderr = <<>>

(* line 18                                                                 *)
Locate ==
  /\ pc = "locate"
  /\ LET r == find_peers_start_pos(char_vec, LocateFrom, Len(char_vec))
     IN IF r.panic
        THEN /\ pc' = "panic"
             /\ stderr' = Append(stderr, "panicked in find_peers_start_pos")
             /\ UNCHANGED peers_start_pos
        ELSE /\ pc' = "extent"
             /\ peers_start_pos' = r.pos
             /\ UNCHANGED stderr
  /\ UNCHANGED <<inputs, peers_end_pos, new_peers, char_vec, file>>

(* line 19                                                                 *)
FindEnd ==
  /\ pc = "extent"
  /\ LET r == find_end_of_peers_fragment(char_vec, peers_start_pos + KeyOffset,
                                         Len(char_vec))
     IN IF r.panic
        THEN /\ pc' = "panic"
             /\ stderr' = Append(stderr, "panicked in find_end_of_peers_fragment")
             /\ UNCHANGED peers_end_pos
        ELSE /\ pc' = "check"
             /\ peers_end_pos' = r.pos
             /\ UNCHANGED stderr
  /\ UNCHANGED <<inputs, peers_start_pos, new_peers, char_vec, file>>

(* lines 21-24                                                             *)
SpanFound(start, end) == start < end

Check ==
  /\ pc = "check"
  /\ IF ~SpanFound(peers_start_pos, peers_end_pos)
     THEN pc' = "rejected" /\ stderr' = Append(stderr, "not written")
     ELSE pc' = "build" /\ UNCHANGED stderr
  /\ UNCHANGED <<inputs, peers_start_pos, peers_end_pos, new_peers, char_vec, file>>

(* lines 26-53                                                             *)
Build ==
  /\ pc = "build"
  /\ new_peers' = BuildNewPeers(peers, n_peers, always_in_p, ignored_peers)
  /\ pc' = "splice"
  /\ UNCHANGED <<inputs, peers_start_pos, peers_end_pos, char_vec, file, stderr>>

(* line 55                                                                 *)
SpliceStep ==
  /\ pc = "splice"
  /\ IF SpliceInRange(char_vec, peers_start_pos, peers_end_pos)
     THEN /\ char_vec' = Splice(char_vec, peers_start_pos, peers_end_pos, new_peers)
          /\ pc' = "persist"
          /\ UNCHANGED stderr
     ELSE /\ pc' = "panic"
          /\ stderr' = Append(stderr, "panicked in splice")
          /\ UNCHANGED char_vec
  /\ UNCHANGED <<inputs, peers_start_pos, peers_end_pos, new_peers, file>>

(* lines 57-69                                                             *)
Persist ==
  /\ pc = "persist"
  /\ \/ /\ file' = Whole(char_vec)
        /\ UNCHANGED stderr
     \/ /\ file' = Torn(char_vec)
        /\ stderr' = Append(stderr, "write failed")
     \/ /\ UNCHANGED file
        /\ stderr' = Append(stderr, "create failed")
  /\ pc' = "done"
  /\ UNCHANGED <<inputs, peers_start_pos, peers_end_pos, new_peers, char_vec>>

Next == Locate \/ FindEnd \/ Check \/ Build \/ SpliceStep \/ Persist

Spec == Init /\ [][Next]_vars

----------------------------------------------------------------------------
(* What the specification means by "outside comments": the comment spans   *)
(* of the document read left to right from its first character, a `#` or   *)
(* `//` comment running to the line feed (or the document's end) and a     *)
(* `/*` comment to the first `*/` after its opener.  These definitions     *)
(* state the claims; the program is the definitions above.                 *)

NoPos == 0 - 1

Min(S) == CHOOSE x \in S : \A y \in S : x <= y

At(chars, p, pattern) ==
  SliceInRange(chars, p, Len(pattern)) /\ Slice(chars, p, Len(pattern)) = pattern

LineCommentLast(chars, p) ==
  LET ends == {q \in p..(Len(chars) - 1) : chars[q + 1] = LF}
  IN IF ends = {} THEN Len(chars) - 1 ELSE Min(ends)

BlockCommentLast(chars, p) ==
  LET ends == {q \in (p + 2)..(Len(chars) - 1) : At(chars, q, <<"*", "/">>)}
  IN IF ends = {} THEN Len(chars) - 1 ELSE Min(ends) + 1

RECURSIVE CommentMask(_, _, _)
CommentMask(chars, p, acc) ==
  IF p >= Len(chars) THEN acc
  ELSE LET last == IF chars[p + 1] = "#" \/ At(chars, p, <<"/", "/">>)
                     THEN LineCommentLast(chars, p)
                   ELSE IF At(chars, p, <<"/", "*">>)
                     THEN BlockCommentLast(chars, p)
                   ELSE p - 1
       IN IF last < p THEN CommentMask(chars, p + 1, Append(acc, FALSE))
          ELSE CommentMask(chars, last + 1, acc \o [i \in 1..(last - p + 1) |-> TRUE])

InComment(chars, p) == CommentMask(chars, 0, <<>>)[p + 1]

KeyAt(chars, p) == At(chars, p, KeyBare) \/ At(chars, p, KeyQuoted)

(* The first key token outside comments, or NoPos.                         *)
RealKeyPos(chars) ==
  LET mask == CommentMask(chars, 0, <<>>)
      keys == {p \in 0..(Len(chars) - 1) : ~mask[p + 1] /\ KeyAt(chars, p)}
  IN IF keys = {} THEN NoPos ELSE Min(keys)

(* The first `]` at or after `from`, outside comments, at which the `[`    *)
(* and `]` outside comments since `from` are equal in number and positive, *)
(* or NoPos.                                                               *)
BalancePos(chars, from) ==
  LET mask == CommentMask(chars, 0, <<>>)
      Count(c, q) == Cardinality({r \in from..q : ~mask[r + 1] /\ chars[r + 1] = c})
      closes == {q \in from..(Len(chars) - 1) :
                   /\ ~mask[q + 1]
                   /\ chars[q + 1] = "]"
                   /\ Count("[", q) > 0
                   /\ Count("[", q) = Count("]", q)}
  IN IF closes = {} THEN NoPos ELSE Min(closes)

Located == pc \in {"extent", "check", "rejected", "build", "splice", "persist", "done"}
           \/ (pc = "panic" /\ stderr # <<"panicked in find_peers_start_pos">>)
Measured == pc \in {"check", "rejected", "build", "splice", "persist", "done"}
            \/ (pc = "panic" /\ stderr = <<"panicked in splice">>)
Built == pc \in {"splice", "persist", "done"}
         \/ (pc = "panic" /\ stderr = <<"panicked in splice">>)
Handed == pc \in {"persist", "done"}
Ended == pc \in {"rejected", "panic", "done"}

----------------------------------------------------------------------------
(* C1: once the splice has run, the text handed to persistence keeps every *)
(* character before peers_start_pos where it was, holds the replacement    *)
(* next, and then every character after peers_end_pos in order; the old    *)
(* closing bracket is gone.  A write that succeeds puts that text in the   *)
(* file, and Scenario 1 gives the stated output.                           *)
C1_FramePreserved ==
  Handed =>
    LET start == peers_start_pos
        end == peers_end_pos
        shift == Len(new_peers) - (end + 1 - start)
    IN /\ Len(char_vec) = Len(cfg_txt) + shift
       /\ \A i \in 0..(start - 1) : char_vec[i + 1] = cfg_txt[i + 1]
       /\ \A i \in 0..(Len(new_peers) - 1) : char_vec[start + i + 1] = new_peers[i + 1]
       /\ \A i \in (end + 1)..(Len(cfg_txt) - 1) : char_vec[i + shift + 1] = cfg_txt[i + 1]
       /\ (pc = "done" /\ stderr = <<>>) => file = Whole(char_vec)
       /\ (cfg_txt = Scenario1Doc /\ peers = <<Addr1, Addr2>> /\ n_peers = 1
             /\ ~always_in_p.some /\ ~ignored_peers.some)
          => char_vec = Scenario1Out

C1_Witness ==
  /\ pc = "done"
  /\ cfg_txt = Scenario1Doc
  /\ file = Whole(Scenario1Out)
  /\ peers_start_pos = 7
  /\ peers_end_pos = 28

----------------------------------------------------------------------------
(* C10: whenever both scans return, peers_end_pos is at least              *)
(* peers_start_pos + 6, so the `!(start < end)` guard never holds and the  *)
(* "file was not written" branch is never taken.                           *)
C10_GuardNeverTaken ==
  /\ Measured => peers_end_pos >= peers_start_pos + 6
  /\ pc # "rejected"
  /\ \A i \in 1..Len(stderr) : stderr[i] # "not written"

(* Both scans returned on a document with no key at all, and the call went *)
(* on to build the replacement.                                            *)
C10_Witness ==
  /\ pc = "build"
  /\ Len(cfg_txt) > 0
  /\ \A p \in 0..(Len(cfg_txt) - 1) : ~KeyAt(cfg_txt, p)
  /\ peers_start_pos >= Len(cfg_txt)

----------------------------------------------------------------------------
(* C2: on a document with no key token outside comments the spans compare  *)
(* start >= end, the call takes the "not written" branch with its          *)
(* diagnostic, never builds or splices, and leaves the file as it was.     *)
C2_NoKeyIsRejected ==
  RealKeyPos(cfg_txt) = NoPos =>
    /\ Measured => ~(peers_start_pos < peers_end_pos)
    /\ pc \notin {"build", "splice", "persist"}
    /\ Ended => /\ pc = "rejected"
                /\ stderr = <<"not written">>
                /\ file = Whole(cfg_txt)

----------------------------------------------------------------------------
(* C3: the key locator never returns a position inside a comment; on the   *)
(* decoy document it returns the second occurrence (position 13); and on   *)
(* a document whose only key tokens are inside comments it reports the     *)
(* key as not found, so that nothing is built, spliced or written.         *)
C3_CommentedKeyNeverMatched ==
  /\ (Located /\ peers_start_pos < Len(cfg_txt))
       => ~InComment(cfg_txt, peers_start_pos)
  /\ (Located /\ cfg_txt = DecoyDoc) => peers_start_pos = 13
  /\ (RealKeyPos(cfg_txt) = NoPos /\ \E p \in 0..(Len(cfg_txt) - 1) : KeyAt(cfg_txt, p))
       => /\ Located => peers_start_pos >= Len(cfg_txt)
          /\ pc \notin {"build", "splice", "persist", "done"}
          /\ file = Whole(cfg_txt)

----------------------------------------------------------------------------
(* C5: when the key is found but the brackets after it never balance, the  *)
(* extent finder returns the not-found sentinel, the `start < end` check   *)
(* fails, the diagnostic is reported and nothing is spliced or written.    *)
C5_UnbalancedIsRejected ==
  (/\ Located
   /\ peers_start_pos = RealKeyPos(cfg_txt)
   /\ BalancePos(cfg_txt, peers_start_pos + KeyOffset) = NoPos) =>
    /\ Measured => ~(peers_start_pos < peers_end_pos)
    /\ pc \notin {"build", "splice", "persist"}
    /\ Ended => /\ pc = "rejected"
                /\ stderr = <<"not written">>
                /\ file = Whole(cfg_txt)

----------------------------------------------------------------------------
(* C8: with the key found and a balance point after it, the extent finder  *)
(* returns that balance point: the first `]` at which the `[` and `]`      *)
(* outside comments are equal in number and positive.                      *)
C8_ExtentIsFirstBalance ==
  (/\ Located
   /\ peers_start_pos = RealKeyPos(cfg_txt)
   /\ BalancePos(cfg_txt, peers_start_pos + KeyOffset) # NoPos) =>
    /\ stderr # <<"panicked in find_end_of_peers_fragment">>
    /\ Measured => peers_end_pos = BalancePos(cfg_txt, peers_start_pos + KeyOffset)

----------------------------------------------------------------------------
(* C9: no scan reads past the document: neither the key locator (with the  *)
(* trivia skipper under it) nor the extent finder ever aborts.             *)
C9_ScansNeverOverrun ==
  /\ stderr # <<"panicked in find_peers_start_pos">>
  /\ stderr # <<"panicked in find_end_of_peers_fragment">>

----------------------------------------------------------------------------
(* The candidate entries a list of peers renders to, and the two readings  *)
(* of the exclusion test.                                                  *)

RECURSIVE Entries(_)
Entries(ps) == IF ps = <<>> THEN <<>> ELSE FormatPeer(Head(ps)) \o Entries(Tail(ps))

Take(s, k) == SubSeq(s, 1, k)

(* The peers whose address is not a substring of the exclusion text.       *)
NotInExclusionText(ps, ignored) ==
  LET Keep(p) == ~(ignored.some /\ Contains(ignored.val, p.uri))
  IN SelectSeq(ps, Keep)

(* The peers whose address does not contain the exclusion text.            *)
NotContainingExclusionText(ps, ignored) ==
  LET Keep(p) == ~(ignored.some /\ Contains(p.uri, ignored.val))
  IN SelectSeq(ps, Keep)

(* The fixed section: every space of the text starts a new entry line.     *)
RECURSIVE SpacesToLines(_)
SpacesToLines(s) ==
  IF s = <<>> THEN <<>>
  ELSE (IF Head(s) = " " THEN EntryLine ELSE <<Head(s)>>) \o SpacesToLines(Tail(s))

FixedSection(always_in) ==
  IF always_in.some THEN ExtraMarker \o EntryLine \o SpacesToLines(always_in.val)
  ELSE <<>>

----------------------------------------------------------------------------
(* C4: the builder emits exactly min(max_count, accepted candidates)       *)
(* entries, none at all when max_count = 0, whatever the fixed additions.  *)
C4_EmitsMinOfCapAndAccepted ==
  Built =>
    LET accepted == NotInExclusionText(peers, ignored_peers)
        k == IF n_peers < Len(accepted) THEN n_peers ELSE Len(accepted)
    IN new_peers = ArrayOpen \o Entries(Take(accepted, k))
                     \o FixedSection(always_in_p) \o ArrayClose

----------------------------------------------------------------------------
(* C6 as claimed: every candidate whose address contains the exclusion     *)
(* text is left out, and the emitted entries are the first of the          *)
(* remaining candidates in the caller's order.                             *)
C6_ExcludesAddressContainingText ==
  Built =>
    LET rest == NotContainingExclusionText(peers, ignored_peers)
    IN \E k \in 0..Len(rest) :
         new_peers = ArrayOpen \o Entries(Take(rest, k))
                       \o FixedSection(always_in_p) \o ArrayClose

(* C6 as amended: every candidate whose address occurs as a substring of   *)
(* the exclusion text is left out, and the emitted entries are the first   *)
(* of the remaining candidates in the caller's order.                      *)
C6_ExcludesAddressWithinText ==
  Built =>
    LET rest == NotInExclusionText(peers, ignored_peers)
    IN \E k \in 0..Len(rest) :
         new_peers = ArrayOpen \o Entries(Take(rest, k))
                       \o FixedSection(always_in_p) \o ArrayClose

(* An exclusion text that holds one candidate's address and is held by     *)
(* another's: the first is left out, the second is emitted.                *)
C6_Witness ==
  /\ Built
  /\ ignored_peers.some
  /\ \E i, j \in 1..Len(peers) :
       /\ i < j
       /\ Contains(ignored_peers.val, peers[i].uri)
       /\ Contains(peers[j].uri, ignored_peers.val)
       /\ ~Contains(ignored_peers.val, peers[j].uri)
  /\ Len(new_peers) > Len(ArrayOpen) + Len(FixedSection(always_in_p)) + Len(ArrayClose)

----------------------------------------------------------------------------
(* C7: with fixed additions present the replacement is the candidate       *)
(* entries the builder emits without them, then a blank line, the marker   *)
(* comment and one line per fixed address in the given order, then the     *)
(* closing bracket: for every max_count and candidate list, with no        *)
(* address dropped as a duplicate and none counted against max_count.      *)
C7_FixedSectionAppended ==
  (Built /\ always_in_p.some) =>
    LET without == BuildNewPeers(peers, n_peers, None, ignored_peers)
        candidates == SubSeq(without, 1, Len(without) - Len(ArrayClose))
    IN new_peers = candidates \o ExtraMarker \o EntryLine
                     \o SpacesToLines(always_in_p.val) \o ArrayClose

(* Two fixed additions, both the address of a candidate that was emitted,  *)
(* with max_count = 0.                                                     *)
C7_Witness ==
  /\ Built
  /\ n_peers = 0
  /\ always_in_p = Some(<<"a", " ", "a">>)
  /\ peers = <<PeerB, PeerA>>
  /\ ~ignored_peers.some

====
